---- MODULE Spec2Model ----
(***************************************************************************)
(* A model of strava-to-sqlite (src/strava_to_sqlite/cli.py and            *)
(* auth_http_server.py): the `auth`, `activities`, `activity-gpx` and      *)
(* `load-activity-gpx` commands, the files and tables they read and write, *)
(* and the collaborators they call (the Strava API, the OAuth2 session,    *)
(* the browser, sqlite-utils and SQLite).                                  *)
(*                                                                         *)
(* Time is counted in whole units (think hours).  An activity's start_date *)
(* is the UTC instant it started at; the stored ISO-8601 string sorts as   *)
(* the instant does, so SQL's MAX(start_date) is the latest instant.       *)
(***************************************************************************)
EXTENDS Integers, Sequences, FiniteSets, TLC

\* ------------------------------------------------------------------ bounds
MaxId == 2          \* activity ids are 1..MaxId
PerPage == 1        \* activities the API returns per page
MaxToken == 2       \* token generations written to the token file
MaxReq == 2         \* HTTP requests that reach the auth listener in one run

Ids == 1..MaxId
\* The machine's UTC offset (local time minus UTC), in the model's time unit.
TZOffsets == {-1, 0, 1}
None == "None"

VARIABLES
  \* ---- persistent state and environment
  tableExists,   \* the `activities` table exists in the database file
  rows,          \* its rows: a set of activity records
  tokenFile,     \* auth.json: 0 when absent, else the token generation saved
  remote,        \* the activities Strava holds for the athlete
  tz,            \* the machine's UTC offset
  \* ---- the `activities` command (cli.py 111-183)
  pc,            \* idle | fetch | insert | done | crashed
  error,         \* the uncaught exception of a crashed run
  allAct,        \* --all-activities
  truncate,      \* --truncate
  params,        \* the request's query parameters, a dictionary
  acc,           \* the `activities` accumulator
  page,          \* the `page` counter
  order,         \* the order in which the API lists this run's activities
  reqLog,        \* requests sent this run: [page, after]
  respLog,       \* responses received this run: [status, body]
  stderr,        \* messages written to stderr this run
  rowsBefore,    \* the table's rows when this run started
  prevRun        \* <<the previous run's last status and flags>>, <<>> when it
                 \* did not reach its insert_all or there was none
VARIABLES
  \* ---- the `auth` command (cli.py 48-80, auth_http_server.py)
  authPc,          \* idle | check | select | selected | exchange | done | crashed
  backlog,         \* connections waiting on the listening socket, oldest first
  arrived,         \* requests that reached the listener this run
  ready,           \* what selector.select() last returned
  appData,         \* server._app_data["authorization_code"], None when unset
  shutdownRequest, \* the server's __shutdown_request flag
  shutdownThreads, \* started threads that have yet to run server.shutdown()
  served,          \* the requests handled this run, in order: the code of
                   \* each and whether it started a shutdown thread
  exchangedCode    \* the code passed to fetch_token, None before
VARIABLES
  \* ---- GPX: activity-gpx, load-activity-gpx (cli.py 208-285, 336-517)
  gpxExists,     \* the `activity_gpx_tracks` table exists
  gpxRows,       \* its rows: a set of [id, geometry]
  files,         \* GPX files on disk: path -> the tracks in the file
  gpxPc,         \* idle | download | load | done | crashed
  gpxError,      \* the uncaught exception of a crashed command
  gpxMode,       \* ids | all | default | load: how the command was called
  idsArg,        \* the --activity-id values
  todo,          \* the `activities` list handed to download_gpx
  idx,           \* the position of download_gpx's loop in it
  info,          \* activity_gpx_info: the (id, path) pairs
  navLog,        \* activity pages the browser went to, in order
  exported,      \* activities whose GPX the browser exported, in order
  filesBefore,   \* the files on disk when the command started
  gpxRowsBefore, \* the table's rows when the command started
  lastLoad       \* per id, the geometry of its latest committed load

authVars == <<authPc, backlog, arrived, ready, appData, shutdownRequest,
              shutdownThreads, served, exchangedCode>>
gpxVars == <<gpxExists, gpxRows, files, gpxPc, gpxError, gpxMode, idsArg, todo,
             idx, info, navLog, exported, filesBefore, gpxRowsBefore, lastLoad>>
syncVars == <<tableExists, rows, remote, tz, pc, error, allAct, truncate, params,
              acc, page, order, reqLog, respLog, stderr, rowsBefore, prevRun>>
vars == <<syncVars, authVars, tokenFile, gpxVars>>

\* ------------------------------------------------------------- activities
\* A Strava activity as the API returns it and the table stores it.
\* A name is a sequence of characters.
OldName == <<"r", "-", "1">>
NewName == <<"R", " ", "#", "1">>
Names == {OldName, NewName}
\* start_latitude is "null" for an activity without GPS data.
Latitudes == {"null", "41.9"}
\* start_date_local is a local calendar day and a time of day.
LocalOf(d) == <<d, 7>>

Activity(i, d, n, lat) ==
  [id |-> i, start_date |-> d, start_date_local |-> LocalOf(d), name |-> n,
   start_latitude |-> lat]

RangeOf(s) == {s[k] : k \in 1..Len(s)}
IdsOf(S) == {a.id : a \in S}
MaxOf(S) == CHOOSE x \in S : \A y \in S : y <= x

\* datetime(...).timestamp() of a naive datetime built from the stored UTC
\* string: Python reads a naive datetime as local time, so the epoch value is
\* the wall-clock reading minus the machine's UTC offset.
NaiveTimestamp(wall, offset) == wall - offset

\* SELECT MAX(start_date): the latest start_date of the table.
MaxStartDate(rs) == MaxOf({a.start_date : a \in rs})

\* ---- the Strava API (GET /athlete/activities?page=&after=)
Earlier(a, b) ==
  \/ a.start_date < b.start_date
  \/ a.start_date = b.start_date /\ a.id <= b.id

RECURSIVE Ascending(_)
Ascending(S) ==
  IF S = {} THEN <<>>
  ELSE LET m == CHOOSE a \in S : \A b \in S : Earlier(a, b)
       IN <<m>> \o Ascending(S \ {m})

Reverse(s) == [k \in 1..Len(s) |-> s[Len(s) + 1 - k]]

\* The activities a request selects: all of them, or those started after
\* the `after` epoch value.
Selected(S, query) ==
  {a \in S : "after" \in DOMAIN query => a.start_date > query["after"]}

Listing(S, query, ord) ==
  IF ord = "asc" THEN Ascending(Selected(S, query))
  ELSE Reverse(Ascending(Selected(S, query)))

PageOf(list, p) ==
  SubSeq(list, (p - 1) * PerPage + 1,
         IF p * PerPage < Len(list) THEN p * PerPage ELSE Len(list))

\* ---- sqlite-utils: insert_all(records, pk="id", replace=True, truncate=)
InsertRow(rs, r) == rs \cup {r}
\* INSERT OR REPLACE of one record: the row of the same id goes, the record
\* comes.
ReplaceRow(rs, r) == {x \in rs : x.id # r.id} \cup {r}

RECURSIVE ReplaceAll(_, _)
ReplaceAll(rs, records) ==
  IF records = <<>> THEN rs
  ELSE ReplaceAll(ReplaceRow(rs, Head(records)), Tail(records))

\* insert_all peeks at the first record and returns at once when there is
\* none: an empty batch neither creates nor truncates the table.  Otherwise
\* it deletes the rows when truncate is set and the table exists, creates
\* the table when needed, and inserts-or-replaces each record by pk.
InsertAllRows(exists, rs, records, trunc) ==
  IF records = <<>> THEN rs
  ELSE ReplaceAll(IF trunc /\ exists THEN {} ELSE rs, records)

InsertAllExists(exists, records) == exists \/ records # <<>>

NoParams == [k \in {} |-> 0]
NoRun == <<>>

\* One command runs at a time; when the next one starts, the process of
\* the one before, with all its variables, is gone.
AuthProcessGone ==
  /\ authPc' = "idle" /\ backlog' = <<>> /\ arrived' = 0 /\ ready' = FALSE
  /\ appData' = None /\ shutdownRequest' = FALSE /\ shutdownThreads' = 0
  /\ served' = <<>> /\ exchangedCode' = None

SyncProcessGone ==
  /\ pc' = "idle" /\ error' = None
  /\ allAct' = FALSE /\ truncate' = FALSE /\ params' = NoParams
  /\ acc' = <<>> /\ page' = 1 /\ order' = "asc"
  /\ reqLog' = <<>> /\ respLog' = <<>> /\ stderr' = <<>>
  /\ rowsBefore' = rows
  /\ prevRun' = NoRun

NextPageStuck(p) == p
\* `page += 1`
NextPage(p) == p + 1

AccumulateLastOnly(a, body) == body
\* `activities += activities_page`
Accumulate(a, body) == a \o body

Statuses == {200, 429, 500}
Orders == {"asc", "desc"}

\* The command starts: it reads the token file, opens the database and
\* takes the watermark (cli.py 115-160).
ActivitiesStart(all, trunc) ==
  /\ pc \in {"idle", "done", "crashed"}
  /\ authPc \in {"idle", "done", "crashed"}
  /\ allAct' = all
  /\ truncate' = trunc
  /\ prevRun' = IF pc = "done"
                THEN <<[status |-> respLog[Len(respLog)].status,
                        all |-> allAct, trunc |-> truncate]>>
                ELSE NoRun
  /\ rowsBefore' = rows
  /\ acc' = <<>>
  /\ page' = 1
  /\ reqLog' = <<>>
  /\ respLog' = <<>>
  /\ stderr' = <<>>
  /\ IF tokenFile = 0
     THEN \* open(auth) raises
          /\ pc' = "crashed" /\ error' = "FileNotFoundError"
          /\ params' = NoParams /\ order' = "asc"
     ELSE IF tableExists /\ rows = {}
     THEN \* MAX() of no rows is NULL; None[:4] raises, and only IndexError
          \* is caught
          /\ pc' = "crashed" /\ error' = "TypeError"
          /\ params' = NoParams /\ order' = "asc"
     ELSE /\ pc' = "fetch" /\ error' = None
          /\ params' = IF all \/ ~tableExists THEN NoParams
                       ELSE [after |-> NaiveTimestamp(MaxStartDate(rows), tz)]
          /\ order' \in Orders
  /\ AuthProcessGone
  /\ UNCHANGED <<tableExists, rows, remote, tz, tokenFile, gpxVars>>

\* One turn of the loop, the token being valid: the request, the status
\* check, the empty-page check and the append (cli.py 161-179).
FetchPage(status) ==
  /\ pc = "fetch"
  /\ params' = ("page" :> page) @@ params
  /\ LET body == IF status = 200
                 THEN PageOf(Listing(remote, params', order), page)
                 ELSE <<>>
     IN /\ reqLog' = Append(reqLog, params')
        /\ respLog' = Append(respLog, [status |-> status, body |-> body])
        /\ stderr' = IF status = 429
                     THEN Append(stderr, "Request limit reached")
                     ELSE stderr
        /\ IF status # 200 \/ body = <<>>
           THEN pc' = "insert" /\ acc' = acc /\ page' = page
           ELSE /\ pc' = "fetch"
                /\ acc' = Accumulate(acc, body)
                /\ page' = NextPage(page)
  /\ UNCHANGED <<tableExists, rows, remote, tz, tokenFile, error, allAct,
                 truncate, order, rowsBefore, prevRun, authVars, gpxVars>>

\* The session finds the token expired before a request and refreshes it:
\* token_updater saves the new token, and the request then goes out.
RefreshToken ==
  /\ pc = "fetch"
  /\ tokenFile < MaxToken
  /\ tokenFile' = tokenFile + 1
  /\ UNCHANGED <<syncVars, authVars, gpxVars>>

RefreshFailsThenInserts ==
  /\ pc = "fetch"
  /\ pc' = "crashed"
  /\ error' = "RefreshError"
  /\ rows' = InsertAllRows(tableExists, rows, acc, truncate)
  /\ tableExists' = InsertAllExists(tableExists, acc)
  /\ UNCHANGED <<remote, tz, tokenFile, allAct, truncate,
                 params, acc, page, order, reqLog, respLog, stderr, rowsBefore,
                 prevRun, authVars, gpxVars>>

\* The refresh fails: the exception leaves client.get and the command.
RefreshFails ==
  /\ pc = "fetch"
  /\ pc' = "crashed"
  /\ error' = "RefreshError"
  /\ UNCHANGED <<tableExists, rows, remote, tz, tokenFile, allAct, truncate,
                 params, acc, page, order, reqLog, respLog, stderr, rowsBefore,
                 prevRun, authVars, gpxVars>>

\* After the loop: one insert_all of the accumulator (cli.py 181-183).
InsertAll ==
  /\ pc = "insert"
  /\ rows' = InsertAllRows(tableExists, rows, acc, truncate)
  /\ tableExists' = InsertAllExists(tableExists, acc)
  /\ pc' = "done"
  /\ UNCHANGED <<remote, tz, tokenFile, error, allAct, truncate, params, acc,
                 page, order, reqLog, respLog, stderr, rowsBefore, prevRun,
                 authVars, gpxVars>>

NextSync ==
  \/ \E all \in BOOLEAN, trunc \in BOOLEAN : ActivitiesStart(all, trunc)
  \/ \E status \in Statuses : FetchPage(status)
  \/ RefreshToken
  \/ RefreshFails
  \/ InsertAll

\* ------------------------------------------------------------------ auth
\* The codes a redirect can carry; NoCode is a request without `code`.
Codes == {"A", "B"}
NoCode == "-"

\* The command starts: the server is built (its _app_data empty) and
\* serve_forever begins its loop (cli.py 56-68).
AuthStart ==
  /\ authPc \in {"idle", "done", "crashed"}
  /\ pc \in {"idle", "done", "crashed"}
  /\ authPc' = "check"
  /\ backlog' = <<>>
  /\ arrived' = 0
  /\ ready' = FALSE
  /\ appData' = None
  /\ shutdownRequest' = FALSE
  /\ shutdownThreads' = 0
  /\ served' = <<>>
  /\ exchangedCode' = None
  /\ SyncProcessGone
  /\ UNCHANGED <<tableExists, rows, remote, tz, tokenFile, gpxVars>>

\* A client connects to localhost:8080 and sends a GET, with or without a
\* `code` parameter.
RequestArrives(c) ==
  /\ authPc \in {"check", "select", "selected"}
  /\ arrived < MaxReq
  /\ arrived' = arrived + 1
  /\ backlog' = Append(backlog, c)
  /\ UNCHANGED <<syncVars, gpxVars, tokenFile, authPc, ready, appData, shutdownRequest,
                 shutdownThreads, served, exchangedCode>>

\* serve_forever returns: its finally clause clears the flag.
ServeForeverReturns ==
  /\ authPc' = "exchange"
  /\ shutdownRequest' = FALSE

\* `while not self.__shutdown_request`
LoopCheck ==
  /\ authPc = "check"
  /\ IF shutdownRequest
     THEN ServeForeverReturns
     ELSE authPc' = "select" /\ shutdownRequest' = shutdownRequest
  /\ UNCHANGED <<syncVars, gpxVars, tokenFile, backlog, arrived, ready, appData,
                 shutdownThreads, served, exchangedCode>>

\* `ready = selector.select(poll_interval)`: a waiting connection, or the
\* poll interval running out.
Select ==
  /\ authPc = "select"
  /\ ready' = (backlog # <<>>)
  /\ authPc' = "selected"
  /\ UNCHANGED <<syncVars, gpxVars, tokenFile, backlog, arrived, appData,
                 shutdownRequest, shutdownThreads, served,
                 exchangedCode>>

\* do_GET (auth_http_server.py 17-27) on the oldest waiting request.
\* query["code"] raises KeyError when the parameter is missing; delivered
\* tells whether the response could be written to the client (a client
\* that hung up makes wfile.write raise).  Either exception ends the
\* handler before the shutdown thread is started; the server logs it and
\* serves on.
DoGET(c, delivered) ==
  /\ served' = Append(served, [code |-> c,
                               shutdown |-> c # NoCode /\ delivered])
  /\ IF c = NoCode
     THEN UNCHANGED <<appData, shutdownThreads>>
     ELSE /\ appData' = c
          /\ shutdownThreads' = IF delivered THEN shutdownThreads + 1
                                ELSE shutdownThreads

\* After select: leave when shutdown was requested meanwhile, else handle
\* one request when one is ready, then service_actions and back to the
\* loop's condition.
AfterSelect(delivered) ==
  /\ authPc = "selected"
  /\ IF shutdownRequest
     THEN /\ ServeForeverReturns
          /\ UNCHANGED <<backlog, appData, served, shutdownThreads>>
     ELSE /\ authPc' = "check"
          /\ shutdownRequest' = shutdownRequest
          /\ IF ready
             THEN /\ backlog' = Tail(backlog)
                  /\ DoGET(Head(backlog), delivered)
             ELSE UNCHANGED <<backlog, appData, served,
                              shutdownThreads>>
  /\ UNCHANGED <<syncVars, gpxVars, tokenFile, arrived, ready, exchangedCode>>

\* The auxiliary thread runs server.shutdown(): it sets the flag (and then
\* waits for serve_forever to return).
ShutdownThread ==
  /\ shutdownThreads > 0
  /\ shutdownThreads' = shutdownThreads - 1
  /\ shutdownRequest' = TRUE
  /\ UNCHANGED <<syncVars, gpxVars, tokenFile, authPc, backlog, arrived, ready, appData,
                 served, exchangedCode>>

\* fetch_token with the stored code, then save_token (cli.py 72-80).
FetchToken ==
  /\ authPc = "exchange"
  /\ tokenFile < MaxToken
  /\ exchangedCode' = appData
  /\ tokenFile' = tokenFile + 1
  /\ authPc' = "done"
  /\ UNCHANGED <<syncVars, gpxVars, backlog, arrived, ready, appData, shutdownRequest,
                 shutdownThreads, served>>

\* fetch_token raises: the command ends before save_token.
FetchTokenFails ==
  /\ authPc = "exchange"
  /\ exchangedCode' = appData
  /\ authPc' = "crashed"
  /\ UNCHANGED <<syncVars, gpxVars, tokenFile, backlog, arrived, ready, appData,
                 shutdownRequest, shutdownThreads, served>>

NextAuth ==
  \/ AuthStart
  \/ \E c \in Codes \cup {NoCode} : RequestArrives(c)
  \/ LoopCheck
  \/ Select
  \/ \E delivered \in BOOLEAN : AfterSelect(delivered)
  \/ ShutdownThread
  \/ FetchToken
  \/ FetchTokenFails

AuthIdle ==
  /\ authPc = "idle" /\ backlog = <<>> /\ arrived = 0 /\ ready = FALSE
  /\ appData = None /\ shutdownRequest = FALSE /\ shutdownThreads = 0
  /\ served = <<>> /\ exchangedCode = None

\* ------------------------------------------------------------------- GPX
\* slugify (cli.py 186-197): lower case, the characters #'",- removed,
\* each run of whitespace replaced by the separator.
Lower(c) == IF c = "R" THEN "r" ELSE c
Specials == {"#", "'", "\"", ",", "-"}
IsSpace(c) == c = " "

RECURSIVE DropSpaces(_)
DropSpaces(s) ==
  IF s # <<>> /\ IsSpace(Head(s)) THEN DropSpaces(Tail(s)) ELSE s

RECURSIVE CollapseSpaces(_, _)
CollapseSpaces(s, sep) ==
  IF s = <<>> THEN <<>>
  ELSE IF IsSpace(Head(s))
       THEN <<sep>> \o CollapseSpaces(DropSpaces(s), sep)
       ELSE <<Head(s)>> \o CollapseSpaces(Tail(s), sep)

slugify(val) ==
  CollapseSpaces(SelectSeq([k \in 1..Len(val) |-> Lower(val[k])],
                           LAMBDA c : c \notin Specials), "_")

\* str() of a small number.
Digits == <<"1", "2", "3", "4", "5", "6", "7", "8", "9">>
Str(n) == Digits[n]

\* gpx_filename: the local date, the id and the slugified name.  A file
\* name, like a path, is a sequence of strings.
gpx_filename(activity) ==
  <<Str(activity.start_date_local[1]), "_", Str(activity.id), "_">>
    \o slugify(activity.name) \o <<".gpx">>

GpxPath(activity) == <<"cache/gpx/">> \o gpx_filename(activity)

NeverCached(path, fs) == FALSE
\* `gpx_path.exists()`
IsCached(path, fs) == path \in DOMAIN fs

\* The GPX file Strava exports for an activity: one track.
Export(i) == <<i>>

\* The three selections of activity_gpx (cli.py 357-398), as SQL gives them.
SelectByIds(rs, ids) == {r \in rs : r.id \in ids}
SelectAll(rs) == rs
SelectUndownloaded(rs, tracks) ==
  {r \in rs : r.start_latitude # "null" /\ r.id \notin IdsOf(tracks)}

\* select="id, name, start_date_local", in the table's rowid order.
Summary(r) ==
  [id |-> r.id, name |-> r.name, start_date_local |-> r.start_date_local]

RECURSIVE ByRowid(_)
ByRowid(S) ==
  IF S = {} THEN <<>>
  ELSE LET m == CHOOSE a \in S : \A b \in S : a.id <= b.id
       IN <<Summary(m)>> \o ByRowid(S \ {m})

\* The command starts: it selects the activities (cli.py 343-402); the
\* third query names both tables and fails when either does not exist.
ActivityGpx(ids, all) ==
  /\ gpxPc \in {"idle", "done", "crashed"}
  /\ idsArg' = ids
  /\ gpxMode' = IF ids # {} THEN "ids" ELSE IF all THEN "all" ELSE "default"
  /\ filesBefore' = files
  /\ gpxRowsBefore' = gpxRows
  /\ idx' = 1
  /\ info' = <<>>
  /\ navLog' = <<>>
  /\ exported' = <<>>
  /\ LET chosen == IF ids # {} THEN SelectByIds(rows, ids)
                   ELSE IF all THEN SelectAll(rows)
                   ELSE SelectUndownloaded(rows, gpxRows)
     IN IF ids = {} /\ ~all /\ ~(tableExists /\ gpxExists)
        THEN /\ gpxPc' = "crashed"
             /\ gpxError' = "OperationalError"
             /\ todo' = <<>>
        ELSE /\ gpxPc' = IF chosen = {} THEN "done" ELSE "download"
             /\ gpxError' = None
             /\ todo' = ByRowid(chosen)
  /\ UNCHANGED <<gpxExists, gpxRows, files, lastLoad, syncVars, authVars,
                 tokenFile>>

\* One turn of download_gpx's loop (cli.py 252-281); after the last one the
\* browser is closed and the pairs go to load_activity_gpx_tracks.
\* hasExport tells whether the activity's page offers "Export GPX".
DownloadOne(hasExport) ==
  /\ gpxPc = "download"
  /\ LET activity == todo[idx]
         path == GpxPath(activity)
     IN IF IsCached(path, files)
        THEN /\ info' = Append(info, <<activity.id, path>>)
             /\ UNCHANGED <<files, navLog, exported>>
        ELSE /\ navLog' = Append(navLog, activity.id)
             /\ IF hasExport
                THEN /\ files' = (path :> Export(activity.id)) @@ files
                     /\ exported' = Append(exported, activity.id)
                     /\ info' = Append(info, <<activity.id, path>>)
                ELSE UNCHANGED <<files, exported, info>>
  /\ idx' = idx + 1
  /\ gpxPc' = IF idx = Len(todo) THEN "load" ELSE "download"
  /\ UNCHANGED <<gpxExists, gpxRows, gpxError, gpxMode, idsArg, todo,
                 filesBefore, gpxRowsBefore, lastLoad, syncVars, authVars,
                 tokenFile>>

\* The files a user may name on the command line.
UserFiles == (<<"a.gpx">> :> <<7, 8>>) @@ (<<"empty.gpx">> :> <<>>)
UserPaths == DOMAIN UserFiles \cup {<<"missing.gpx">>}

\* The `load-activity-gpx` command (cli.py 515-517).
LoadActivityGpx(i, path) ==
  /\ gpxPc \in {"idle", "done", "crashed"}
  /\ gpxMode' = "load"
  /\ idsArg' = {}
  /\ todo' = <<>>
  /\ idx' = 1
  /\ info' = <<<<i, path>>>>
  /\ navLog' = <<>>
  /\ exported' = <<>>
  /\ filesBefore' = files
  /\ gpxRowsBefore' = gpxRows
  /\ gpxError' = None
  /\ gpxPc' = "load"
  /\ UNCHANGED <<gpxExists, gpxRows, files, lastLoad, syncVars, authVars,
                 tokenFile>>

\* fiona.open(path, layer="tracks")[0] succeeds: the file exists and holds
\* a track.
Readable(path, fs) == path \in DOMAIN fs /\ fs[path] # <<>>

\* The MULTILINESTRING made of the file's first track, SRID 4326.
GeometryOf(tracks) == [srid |-> 4326, lines |-> tracks[1]]

InsertOrIgnoreTrack(rs, i, geom) ==
  IF i \in IdsOf(rs) THEN rs ELSE rs \cup {[id |-> i, geometry |-> geom]}
\* INSERT ... ON CONFLICT(id) DO UPDATE SET geometry=excluded.geometry
UpsertTrack(rs, i, geom) ==
  {r \in rs : r.id # i} \cup {[id |-> i, geometry |-> geom]}

RECURSIVE UpsertTracks(_, _, _)
UpsertTracks(rs, pairs, fs) ==
  IF pairs = <<>> THEN rs
  ELSE UpsertTracks(UpsertTrack(rs, Head(pairs)[1],
                                GeometryOf(fs[Head(pairs)[2]])),
                    Tail(pairs), fs)

\* load_activity_gpx_tracks (cli.py 457-496): init_gpx_table creates the
\* table and commits; the rows are committed after the last pair, so a
\* file that cannot be read leaves the rows as they were.
LoadTracks ==
  /\ gpxPc = "load"
  /\ gpxExists' = TRUE
  /\ IF \A k \in 1..Len(info) : Readable(info[k][2], files)
     THEN /\ gpxRows' = UpsertTracks(gpxRows, info, files)
          /\ lastLoad' =
               [i \in DOMAIN lastLoad |->
                  LET ks == {k \in 1..Len(info) : info[k][1] = i}
                  IN IF ks = {} THEN lastLoad[i]
                     ELSE <<GeometryOf(files[info[MaxOf(ks)][2]])>>]
          /\ gpxPc' = "done"
          /\ gpxError' = None
     ELSE /\ gpxRows' = gpxRows
          /\ lastLoad' = lastLoad
          /\ gpxPc' = "crashed"
          /\ gpxError' = "FionaError"
  /\ UNCHANGED <<files, gpxMode, idsArg, todo, idx, info, navLog, exported,
                 filesBefore, gpxRowsBefore, syncVars, authVars, tokenFile>>

NextGpx ==
  \/ \E ids \in SUBSET Ids, all \in BOOLEAN : ActivityGpx(ids, all)
  \/ \E hasExport \in BOOLEAN : DownloadOne(hasExport)
  \/ \E i \in Ids, path \in UserPaths \cup DOMAIN files : LoadActivityGpx(i, path)
  \/ LoadTracks

GpxIdle ==
  /\ gpxExists = FALSE /\ gpxRows = {} /\ files = UserFiles
  /\ gpxPc = "idle" /\ gpxError = None /\ gpxMode = None /\ idsArg = {}
  /\ todo = <<>> /\ idx = 1 /\ info = <<>> /\ navLog = <<>>
  /\ exported = <<>> /\ filesBefore = files /\ gpxRowsBefore = {}
  /\ lastLoad = [i \in Ids |-> <<>>]

\* ---- initial states: a store, a remote set, a machine time zone.
\* Activities are numbered in the order they started: activity i started
\* at instant i.  The remote holds any subset of them.  The store holds, of
\* a remote activity, nothing, the activity as it is, or an older version
\* of it (another name); of an activity the remote no longer has, nothing
\* or the row an earlier sync left.
RemoteSets == {{Activity(i, i, NewName, "41.9") : i \in S} : S \in SUBSET Ids}

StoresFor(R) ==
  {{a \in R : a.id \in S}
     \cup {Activity(i, i, OldName, "41.9") : i \in T} :
       S \in SUBSET IdsOf(R), T \in SUBSET Ids}

UniqueIds(rs) == \A a, b \in rs : a.id = b.id => a = b

InitSync ==
  /\ remote \in RemoteSets
  /\ rows \in {s \in StoresFor(remote) : UniqueIds(s)}
  /\ tableExists \in {TRUE, rows # {}}
  /\ tz \in TZOffsets
  /\ tokenFile = 1
  /\ pc = "idle" /\ error = None
  /\ allAct = FALSE /\ truncate = FALSE /\ params = NoParams
  /\ acc = <<>> /\ page = 1 /\ order = "asc"
  /\ reqLog = <<>> /\ respLog = <<>> /\ stderr = <<>>
  /\ rowsBefore = rows
  /\ prevRun = NoRun
  /\ AuthIdle
  /\ GpxIdle

\* A first use: no token file, no database yet, the remote holding every
\* activity.
Init ==
  /\ remote = {Activity(i, i, NewName, "41.9") : i \in Ids}
  /\ rows = {}
  /\ tableExists = FALSE
  /\ tz \in TZOffsets
  /\ tokenFile = 0
  /\ pc = "idle" /\ error = None
  /\ allAct = FALSE /\ truncate = FALSE /\ params = NoParams
  /\ acc = <<>> /\ page = 1 /\ order = "asc"
  /\ reqLog = <<>> /\ respLog = <<>> /\ stderr = <<>>
  /\ rowsBefore = rows
  /\ prevRun = NoRun
  /\ AuthIdle
  /\ GpxIdle

\* A database the `activities` command filled: any subset of the
\* activities, each with or without GPS data; no GPX loaded yet, the
\* spatial table there or not.
InitGpx ==
  /\ remote = {}
  /\ rows \in {{Activity(i, i, NewName, lat[i]) : i \in S} :
                 S \in SUBSET Ids, lat \in [Ids -> Latitudes]}
  /\ tableExists = (rows # {})
  /\ tz = 0
  /\ tokenFile = 1
  /\ pc = "idle" /\ error = None
  /\ allAct = FALSE /\ truncate = FALSE /\ params = NoParams
  /\ acc = <<>> /\ page = 1 /\ order = "asc"
  /\ reqLog = <<>> /\ respLog = <<>> /\ stderr = <<>>
  /\ rowsBefore = rows
  /\ prevRun = NoRun
  /\ AuthIdle
  /\ gpxExists \in BOOLEAN /\ gpxRows = {} /\ files = UserFiles
  /\ gpxPc = "idle" /\ gpxError = None /\ gpxMode = None /\ idsArg = {}
  /\ todo = <<>> /\ idx = 1 /\ info = <<>> /\ navLog = <<>>
  /\ exported = <<>> /\ filesBefore = files /\ gpxRowsBefore = {}
  /\ lastLoad = [i \in Ids |-> <<>>]

Next == NextAuth \/ NextSync

\* The `activities` command alone, on any store.
SpecSync == InitSync /\ [][NextSync]_vars

\* `auth` and `activities` from a first use on.
Spec == Init /\ [][Next]_vars

\* `activity-gpx` and `load-activity-gpx` on a filled database.
SpecGpx == InitGpx /\ [][NextGpx]_vars

\* ------------------------------------------------------------------ claims
Last(s) == s[Len(s)]

RECURSIVE BodiesUpTo(_, _)
\* The bodies of the first n responses, one after the other.
BodiesUpTo(log, n) ==
  IF n = 0 THEN <<>> ELSE BodiesUpTo(log, n - 1) \o log[n].body

AllOk(log) == \A k \in 1..Len(log) : log[k].status = 200

\* What an upsert by id of the records makes of a table.
MergedById(before, records) ==
  {r \in before : r.id \notin IdsOf(RangeOf(records))} \cup RangeOf(records)

TwoRuns == pc = "done" /\ prevRun # NoRun
\* C1 as stated: a second run of `activities` without --truncate, with the
\* same --all-activities setting and an unchanged remote set, leaves the
\* rows as the first run left them, whatever way the first run ended.
C1_SecondRunChangesNothing ==
  (TwoRuns /\ ~truncate /\ ~prevRun[1].trunc /\ allAct = prevRun[1].all)
    => (rows = rowsBefore /\ UniqueIds(rows))

\* C1 amended: a second run of `activities` without --truncate, after a
\* first run without --truncate that ended on an empty page, the second
\* not adding --all-activities, leaves the rows as the first run left them,
\* with no id twice.
C1_SecondRunAfterFullRun ==
  (TwoRuns /\ ~truncate /\ ~prevRun[1].trunc /\ prevRun[1].status = 200
     /\ (allAct => prevRun[1].all))
    => (rows = rowsBefore /\ UniqueIds(rows))

\* A second run that fetched again a page of activities the store held.
C1_Witness ==
  /\ TwoRuns /\ ~truncate /\ ~prevRun[1].trunc /\ prevRun[1].status = 200
  /\ (allAct => prevRun[1].all)
  /\ acc # <<>> /\ RangeOf(acc) \subseteq rowsBefore
  /\ \E a \in rows : a.name = OldName

\* C2 as stated: with rows in the store and no --all-activities every
\* request carries `after` equal to the latest stored start_date as an
\* epoch value; with no rows, or with --all-activities, no request carries
\* `after`.
C2_AfterIsLatestStart ==
  \A k \in 1..Len(reqLog) :
    IF ~allAct /\ rowsBefore # {}
    THEN /\ "after" \in DOMAIN reqLog[k]
         /\ reqLog[k]["after"] = MaxStartDate(rowsBefore)
    ELSE "after" \notin DOMAIN reqLog[k]

\* C3: the loop asks for pages 1, 2, ... in order, each once; while every
\* status is 200 it goes on exactly as long as pages are non-empty, stops
\* on the first empty one, and the accumulator holds the pages before it in
\* page order.
C3_Pagination ==
  /\ Len(respLog) = Len(reqLog)
  /\ \A k \in 1..Len(reqLog) : reqLog[k]["page"] = k
  /\ AllOk(respLog) =>
       /\ \A k \in 1..(Len(respLog) - 1) : respLog[k].body # <<>>
       /\ pc = "fetch" =>
            /\ page = Len(reqLog) + 1
            /\ respLog # <<>> => Last(respLog).body # <<>>
            /\ acc = BodiesUpTo(respLog, Len(respLog))
       /\ pc \in {"insert", "done"} =>
            /\ Last(respLog).body = <<>>
            /\ acc = BodiesUpTo(respLog, Len(respLog) - 1)

\* Two non-empty pages, then the empty one.
C3_Witness ==
  /\ pc = "insert" /\ AllOk(respLog) /\ Len(respLog) = 3
  /\ Len(acc) >= 2

\* C4: when page k answers with a status other than 200, the loop stops
\* there without raising, the accumulator holds pages 1..k-1, nothing is
\* written before the loop's end, and the one insert_all then puts exactly
\* those activities into the table by id, the same for 429 as for any
\* other status.
C4_PartialSuccess ==
  (respLog # <<>> /\ Last(respLog).status # 200) =>
    /\ pc \in {"insert", "done"}
    /\ acc = BodiesUpTo(respLog, Len(respLog) - 1)
    /\ \A k \in 1..(Len(respLog) - 1) :
         respLog[k].status = 200 /\ respLog[k].body # <<>>
    /\ (429 \in {respLog[k].status : k \in 1..Len(respLog)}) = (stderr # <<>>)
    /\ pc = "insert" => rows = rowsBefore
    /\ pc = "done" =>
         /\ RangeOf(acc) \subseteq rows
         /\ rows \subseteq rowsBefore \cup RangeOf(acc)
         /\ UniqueIds(rows)
         /\ ~truncate => rows = MergedById(rowsBefore, acc)

\* A run stopped by a 429 on its second page, the first page written.
C4_Witness ==
  /\ pc = "done" /\ Len(respLog) = 2 /\ Last(respLog).status = 429
  /\ acc # <<>> /\ rows # rowsBefore /\ rowsBefore # {}

\* C5 as stated: after a run with --truncate the table holds exactly the
\* accumulated activities, none accumulated included; after a run without
\* it the table is the rows of before with each accumulated activity
\* inserted or put in place of the row of its id.
C5_TruncateOrMerge ==
  pc = "done" =>
    IF truncate THEN rows = RangeOf(acc)
    ELSE rows = MergedById(rowsBefore, acc)

\* C6: `activity_gpx_tracks` holds at most one row per activity id, the
\* geometry of an id is the one of the last successful load of that id,
\* a load that fails leaves the rows as they were, and a load leaves the
\* rows of the ids it was not given as they were.
C6_GeometryUpsert ==
  /\ \A r, q \in gpxRows : r.id = q.id => r = q
  /\ gpxRows = {[id |-> i, geometry |-> lastLoad[i][1]] :
                  i \in {j \in Ids : lastLoad[j] # <<>>}}
  /\ gpxPc \in {"load", "crashed"} => gpxRows = gpxRowsBefore
  /\ gpxPc = "done" =>
       /\ \A k \in 1..Len(info) :
            [id |-> info[k][1], geometry |-> GeometryOf(files[info[k][2]])]
              \in gpxRows
       /\ \A r \in gpxRowsBefore :
            r.id \notin {info[k][1] : k \in 1..Len(info)} => r \in gpxRows

\* A file was loaded for an id that had a row with another geometry, while
\* another id had a row too.
C6_Witness ==
  /\ gpxPc = "done" /\ gpxMode = "load"
  /\ \E r \in gpxRowsBefore :
       /\ r.id = info[1][1]
       /\ r.geometry # GeometryOf(files[info[1][2]])
  /\ \E r \in gpxRowsBefore : r.id # info[1][1]

PosIn(list, i) == CHOOSE k \in 1..Len(list) : list[k].id = i

\* C7: an activity whose GPX path existed when download_gpx began is not
\* navigated to and not exported, its file and every other file of before
\* stay as they were, and its (id, path) pair is returned; the pages
\* visited and the pairs returned follow the order of the input list.
C7_CacheSkip ==
  gpxMode \in {"ids", "all", "default"} =>
    /\ \A k \in 1..(idx - 1) :
         LET path == GpxPath(todo[k])
         IN path \in DOMAIN filesBefore =>
              /\ todo[k].id \notin RangeOf(navLog)
              /\ todo[k].id \notin RangeOf(exported)
              /\ <<todo[k].id, path>> \in RangeOf(info)
    /\ \A path \in DOMAIN filesBefore :
         path \in DOMAIN files /\ files[path] = filesBefore[path]
    /\ \A k, j \in 1..Len(info) :
         k < j => PosIn(todo, info[k][1]) < PosIn(todo, info[j][1])
    /\ \A k, j \in 1..Len(navLog) :
         k < j => PosIn(todo, navLog[k]) < PosIn(todo, navLog[j])

\* A run over two activities, the file of the first one on disk already,
\* the second one exported.
C7_Witness ==
  /\ gpxPc = "done" /\ gpxMode \in {"ids", "all"}
  /\ Len(todo) = 2 /\ Len(info) = 2
  /\ GpxPath(todo[1]) \in DOMAIN filesBefore
  /\ exported = <<todo[2].id>>

\* C8 as stated: whatever a store with an `activities` table holds, GPX
\* loaded before or not, the run without --activity-id and without
\* --all-activities selects the activities with a start latitude and no
\* geometry row; with ids it selects the stored activities of those ids,
\* with --all-activities alone every stored activity.
C8_SelectionPolicy ==
  (gpxMode \in {"ids", "all", "default"}) =>
    /\ tableExists => gpxError # "OperationalError"
    /\ {a.id : a \in RangeOf(todo)} =
         {r.id : r \in
            {q \in rows :
               CASE gpxMode = "ids" -> q.id \in idsArg
                 [] gpxMode = "all" -> TRUE
                 [] OTHER -> /\ q.start_latitude # "null"
                             /\ q.id \notin IdsOf(gpxRowsBefore)}}

\* C9 as stated: once a redirect with a code was answered and the
\* shutdown started on the auxiliary thread, no request that follows puts
\* another code in place of the stored one, however requests and the
\* shutdown interleave.
C9_OneCallback ==
  \A k, j \in 1..Len(served) :
    (k < j /\ served[k].shutdown) => served[j].code = NoCode

\* C10: a token exchange that fails in `auth`, or a token refresh that
\* fails in `activities`, ends the command with the token file as it was
\* and the `activities` table as it was when the command started.
C10_NoPartialState ==
  [][(\/ pc = "fetch" /\ pc' = "crashed"
      \/ authPc = "exchange" /\ authPc' = "crashed")
       => /\ tokenFile' = tokenFile
          /\ tableExists' = tableExists
          /\ rows' = rows
          /\ rows' = rowsBefore']_vars

\* A refresh failed on the second page, the first page in the accumulator.
C10_Witness ==
  /\ pc = "crashed" /\ error = "RefreshError"
  /\ acc # <<>> /\ tokenFile = 2

\* C11 as stated, on a machine whose clock is UTC: after a run that a
\* non-200 response cut short with some pages stored, a later run without
\* --all-activities and without --truncate that ends on an empty page
\* leaves every remote activity in the `activities` table, in whatever
\* order the provider lists the activities.
C11_ConvergesAfterPartialSync ==
  (/\ TwoRuns /\ tz = 0
   /\ prevRun[1].status # 200 /\ ~prevRun[1].trunc
   /\ rowsBefore # {}
   /\ ~allAct /\ ~truncate
   /\ Last(respLog).status = 200)
    => remote \subseteq rows
====
